---- MODULE Spec2Model ----
(***************************************************************************)
(* Model of markup-css-once (src/src/lib.rs): the CssOnce tracker, its     *)
(* is_rendered::<T>() operation and the css_once! macro, together with the *)
(* templates that use them.                                                *)
(*                                                                         *)
(* is_rendered is modelled as the three statements of its body (take,      *)
(* insert, set).  A call in flight keeps the HashSet it moved out of the   *)
(* Cell in its own frame; the Cell holds HashSet::default() meanwhile.     *)
(* CssOnce wraps a Cell, so it is !Sync: a tracker is only ever used by    *)
(* one thread at a time and the body of is_rendered calls nothing that     *)
(* could re-enter it, hence at most one call is in flight per tracker.     *)
(* Calls on different trackers interleave freely.                          *)
(***************************************************************************)
EXTENDS FiniteSets, Integers, Sequences, TLC

\* ------------------------------------------------------------------ bounds
MaxCalls == 4
NCallers == 2

Callers == 1..NCallers

\* Tracker instances a program creates with CssOnce::new().
Trackers == {"A", "B"}

\* --------------------------------------------------- templates (the inputs)
\* A fragment kind is a Rust type: the template struct that markup::define!
\* generates.  The two here share their short name and live in different
\* crates.
Hello == [crate |-> "app", name |-> "Hello"]
UiHello == [crate |-> "ui", name |-> "Hello"]

Types == {Hello, UiHello}

\* The value of the `name` field in the template instances caller c renders.
NameOf(c) == IF c = 1 THEN "World" ELSE IF c = 2 THEN "Rust" ELSE "Ferris"

\* The string literals a template passes to css_once!, in source order.
Pieces(T) ==
  IF T = Hello THEN <<"p { background: blue }", "b { color: yellow }">>
  ELSE <<"p { color: red }", "i { color: green }", "p { margin: 1px }">>

\* The markup a template renders after its css_once! call.
Body(T, n) ==
  IF T = Hello THEN "<p>Hello, <b>" \o n \o "</b></p>"
  ELSE "<p>Hi, <i>" \o n \o "</i></p>"

\* ------------------------------------------------------------ pure functions
\* std::any::type_name::<T>(): the fully qualified path of the type.
TypeName_short(T) == T.name
TypeName(T) == T.crate \o "::" \o T.name

\* HashSet::default(), the value #[derive(Default)] and Cell::take() use.
Default_dirty == {TypeName(Hello)}
Default == {}

\* HashSet::insert: adds the value, returns whether it was newly inserted.
HashSetInsert_replace(s, x) == [set |-> {x}, inserted |-> x \notin s]
HashSetInsert_always(s, x) == [set |-> s \cup {x}, inserted |-> TRUE]
HashSetInsert(s, x) == [set |-> s \cup {x}, inserted |-> x \notin s]

\* concat!(...) over the macro's string literals.
RECURSIVE Concat(_)
Concat(ps) == IF ps = <<>> THEN "" ELSE Head(ps) \o Concat(Tail(ps))

\* The css_once! macro, given the result of is_rendered::<Self>().
CssOnceMacro_swapped(rendered, ps) ==
  IF rendered THEN "<style>" \o Concat(ps) \o "</style>\n" ELSE ""
CssOnceMacro(rendered, ps) ==
  IF rendered THEN "" ELSE "<style>" \o Concat(ps) \o "</style>\n"

\* ------------------------------------------------------------------- state
VARIABLES
  cell,   \* cell[t]: the HashSet inside tracker t's Cell; DOMAIN = created
  pc,     \* pc[c]: position of caller c inside is_rendered
  frame,  \* frame[c]: the locals of caller c's call
  log     \* history: the completed renders, in order of completion

vars == <<cell, pc, frame, log>>

NoFrame ==
  [t |-> "-", T |-> Hello, name |-> "", before |-> {}, inner |-> {},
   inserted |-> FALSE]

InFlight == {c \in Callers : pc[c] # "idle"}

\* The trackers with a call between take() and set().
Busy == {frame[c].t : c \in InFlight}

\* Cell<..> is !Sync and is_rendered is not re-entrant: no second call
\* starts on a tracker while one is in flight on it.
CellExclusive_shared(t) == TRUE
CellExclusive(t) == t \notin Busy

Init ==
  /\ cell = << >>
  /\ pc = [c \in Callers |-> "idle"]
  /\ frame = [c \in Callers |-> NoFrame]
  /\ log = << >>

\* ----------------------------------------------------------------- actions
\* CssOnce::new()
New(t) ==
  /\ t \notin DOMAIN cell
  /\ cell' = [x \in DOMAIN cell \cup {t} |-> IF x = t THEN Default ELSE cell[x]]
  /\ UNCHANGED <<pc, frame, log>>

\* let mut inner = self.0.take();
Take_keep(c, t, T) ==
  /\ pc[c] = "idle"
  /\ t \in DOMAIN cell
  /\ CellExclusive(t)
  /\ Len(log) + Cardinality(InFlight) < MaxCalls
  /\ frame' = [frame EXCEPT ![c] =
       [t |-> t, T |-> T, name |-> NameOf(c), before |-> cell[t], inner |-> Default,
        inserted |-> FALSE]]
  /\ cell' = [cell EXCEPT ![t] = Default]
  /\ pc' = [pc EXCEPT ![c] = "taken"]
  /\ UNCHANGED log
Take(c, t, T) ==
  /\ pc[c] = "idle"
  /\ t \in DOMAIN cell
  /\ CellExclusive(t)
  /\ Len(log) + Cardinality(InFlight) < MaxCalls
  /\ frame' = [frame EXCEPT ![c] =
       [t |-> t, T |-> T, name |-> NameOf(c), before |-> cell[t], inner |-> cell[t],
        inserted |-> FALSE]]
  /\ cell' = [cell EXCEPT ![t] = Default]
  /\ pc' = [pc EXCEPT ![c] = "taken"]
  /\ UNCHANGED log

\* let inserted = inner.insert(type_name::<T>());
Insert(c) ==
  /\ pc[c] = "taken"
  /\ LET r == HashSetInsert(frame[c].inner, TypeName(frame[c].T))
     IN  frame' = [frame EXCEPT ![c].inner = r.set, ![c].inserted = r.inserted]
  /\ pc' = [pc EXCEPT ![c] = "inserted"]
  /\ UNCHANGED <<cell, log>>

\* self.0.set(inner); !inserted  -- and the rest of the template's render:
\* the css_once! expansion followed by the template's own markup.
SetStore_all(c) == [x \in DOMAIN cell |-> frame[c].inner]
SetStore_skip(c) == cell
SetStore(c) == [cell EXCEPT ![frame[c].t] = frame[c].inner]

Return_same(c) == frame[c].inserted
Return(c) == ~frame[c].inserted

Render(style, T, n) == style \o Body(T, n)

Set(c) ==
  /\ pc[c] = "inserted"
  /\ cell' = SetStore(c)
  /\ LET f == frame[c]
         rendered == Return(c)
         style == CssOnceMacro(rendered, Pieces(f.T))
     IN  log' = Append(log,
           [caller |-> c, t |-> f.t, T |-> f.T, name |-> f.name,
            ret |-> rendered,
            before |-> f.before, after |-> f.inner,
            style |-> style, html |-> Render(style, f.T, f.name)])
  /\ pc' = [pc EXCEPT ![c] = "idle"]
  /\ frame' = [frame EXCEPT ![c] = NoFrame]

Next ==
  \/ \E t \in Trackers : New(t)
  \/ \E c \in Callers, t \in Trackers, T \in Types : Take(c, t, T)
  \/ \E c \in Callers : Insert(c)
  \/ \E c \in Callers : Set(c)

Spec == Init /\ [][Next]_vars

\* ------------------------------------------------------- derived notions
Calls == 1..Len(log)

\* The completed calls on tracker t / on tracker t for type T.
CallsOn(t) == {i \in Calls : log[i].t = t}
CallsFor(t, T) == {i \in Calls : log[i].t = t /\ log[i].T = T}

First(S) == CHOOSE i \in S : \A j \in S : i <= j

\* The tracker's HashSet, wherever it currently is: in the frame of the
\* call that moved it out of the Cell, or in the Cell.
SeenSet(t) ==
  IF t \in Busy
  THEN LET c == CHOOSE d \in InFlight : frame[d].t = t IN frame[c].inner
  ELSE cell[t]

\* ------------------------------------------------------------------ claims

\* C1: on one tracker, whatever the interleaving of kinds, the style block
\* of a kind is emitted (non-empty css_once! output) exactly at the first
\* render of that kind and at no later one; a kind never rendered has no
\* emission.
C1_StyleEmittedOnceAtFirst ==
  \A t \in Trackers, T \in Types :
    LET idx == CallsFor(t, T)
        emitted == {i \in idx : log[i].style # ""}
    IN  /\ Cardinality(emitted) = (IF idx = {} THEN 0 ELSE 1)
        /\ idx # {} => emitted = {First(idx)}

\* Two kinds rendered twice each on one tracker in the order A, B, A, B.
C1_Witness ==
  /\ Len(log) = 4
  /\ \A i \in Calls : log[i].t = "A"
  /\ log[1].T = Hello /\ log[2].T = UiHello
  /\ log[3].T = Hello /\ log[4].T = UiHello
  /\ log[1].style # "" /\ log[2].style # ""
  /\ log[3].style = "" /\ log[4].style = ""

\* C2: a tracker returned by CssOnce::new() holds the empty set, and the
\* first is_rendered call on such a tracker returns false for every type.
C2_FreshTrackerFirstCallFalse ==
  /\ \A t \in DOMAIN cell : (t \notin Busy /\ CallsOn(t) = {}) => cell[t] = {}
  /\ \A i \in Calls :
       (\A j \in Calls : j < i => log[j].t # log[i].t) => log[i].ret = FALSE

\* One tracker is still fresh, the other has answered its first call.
C2_Witness ==
  /\ DOMAIN cell = Trackers
  /\ Busy = {}
  /\ CallsOn("B") = {}
  /\ CallsOn("A") # {}
  /\ log[1].ret = FALSE

\* C3: once is_rendered::<T> has completed on a tracker, every later call
\* for T on that tracker returns true, whatever happens in between.
C3_RepeatCallsReturnTrue ==
  \A i, j \in Calls :
    (i < j /\ log[i].t = log[j].t /\ log[i].T = log[j].T) => log[j].ret = TRUE

\* T, another type, then T twice more, all on one tracker.
C3_Witness ==
  /\ Len(log) = 4
  /\ \A i \in Calls : log[i].t = "A"
  /\ log[1].T = UiHello /\ log[2].T = Hello
  /\ log[3].T = UiHello /\ log[4].T = UiHello
  /\ log[3].ret /\ log[4].ret

\* C4: the first call for a type on a tracker returns false however many
\* calls for other types that tracker has already answered.
C4_OtherKindsDoNotAffectFirstCall ==
  \A i \in Calls :
    (\A j \in Calls : (j < i /\ log[j].t = log[i].t) => log[j].T # log[i].T)
      => log[i].ret = FALSE

\* Three calls for app::Hello, then the first call for ui::Hello.
C4_Witness ==
  /\ Len(log) = 4
  /\ \A i \in Calls : log[i].t = "A"
  /\ \A i \in 1..3 : log[i].T = Hello
  /\ log[4].T = UiHello
  /\ log[4].ret = FALSE

\* C5: trackers share no state: a step changes the Cell of a tracker only
\* if it is a step of a call on that tracker (or the tracker's creation).
C5_TrackersIsolated ==
  [][\A t \in DOMAIN cell :
       cell'[t] # cell[t] =>
         \E c \in Callers :
           /\ pc'[c] # pc[c]
           /\ (IF pc[c] = "idle" THEN frame'[c].t ELSE frame[c].t) = t]_vars

\* Hello is recorded on A, and afterwards the first call for Hello on B
\* returns false.
C5_Witness ==
  /\ Len(log) >= 2
  /\ log[1].t = "A" /\ log[1].T = Hello
  /\ log[2].t = "B" /\ log[2].T = Hello /\ log[2].ret = FALSE
  /\ Busy = {}
  /\ cell["A"] = cell["B"]

\* The text css_once! is expected to produce for each template.
ExpectedStyle(T) ==
  IF T = Hello THEN "<style>p { background: blue }b { color: yellow }</style>\n"
  ELSE "<style>p { color: red }i { color: green }p { margin: 1px }</style>\n"

\* C6: css_once! yields "<style>" + the pieces in order + "</style>\n" when
\* is_rendered returned false and "" when it returned true; the template's
\* own markup follows in both cases.
C6_MacroOutput ==
  \A i \in Calls :
    LET e == log[i] IN
    /\ e.style = (IF e.ret THEN "" ELSE ExpectedStyle(e.T))
    /\ e.html = e.style \o Body(e.T, e.name)
    /\ (e.T = Hello /\ e.name = "World") =>
         e.html = (IF e.ret
                   THEN "<p>Hello, <b>World</b></p>"
                   ELSE "<style>p { background: blue }b { color: yellow }</style>\n<p>Hello, <b>World</b></p>")

\* The two renders of the crate's doc-test.
C6_Witness ==
  /\ Len(log) >= 2
  /\ log[1].t = log[2].t
  /\ log[1].T = Hello /\ log[1].name = "World"
  /\ log[2].T = Hello /\ log[2].name = "World"
  /\ log[1].html = "<style>p { background: blue }b { color: yellow }</style>\n<p>Hello, <b>World</b></p>"
  /\ log[2].html = "<p>Hello, <b>World</b></p>"

\* C7: no step removes an identity from a tracker's set.
C7_SeenSetMonotone ==
  [][\A t \in DOMAIN cell : SeenSet(t) \subseteq SeenSet(t)']_vars

\* A non-empty set has been moved out of the Cell by a call that added a
\* second identity to it; the Cell holds the empty set meanwhile.
C7_Witness ==
  \E c \in Callers :
    /\ pc[c] = "inserted"
    /\ Cardinality(frame[c].before) = 1
    /\ Cardinality(SeenSet(frame[c].t)) = 2
    /\ cell[frame[c].t] = {}

C9_OneInsertionPerIdentity ==
  /\ \A i \in Calls :
       log[i].ret =>
         /\ log[i].after = log[i].before
         /\ Cardinality(log[i].after) = Cardinality(log[i].before)
  /\ \A t \in Trackers, T \in Types :
       LET idx == CallsFor(t, T)
           ins == {i \in idx : log[i].after # log[i].before}
       IN  idx # {} =>
             /\ ins = {First(idx)}
             /\ log[First(idx)].after =
                  log[First(idx)].before \cup {TypeName(T)}
             /\ Cardinality(log[First(idx)].after) =
                  Cardinality(log[First(idx)].before) + 1

\* A repeat call on a tracker that holds two identities.
C9_Witness ==
  \E i \in Calls :
    /\ log[i].ret
    /\ Cardinality(log[i].before) = 2
    /\ log[i].after = log[i].before

\* C10: between calls the Cell holds exactly the identities passed to the
\* completed calls on that tracker, during a call it holds the empty set,
\* and each call returns whether its identity was passed by an earlier
\* call on the tracker.
C10_CellIsSetOfPassedIdentities ==
  /\ \A t \in DOMAIN cell :
       cell[t] = (IF t \in Busy THEN {}
                  ELSE {TypeName(log[i].T) : i \in CallsOn(t)})
  /\ \A i \in Calls :
       log[i].ret =
         (TypeName(log[i].T) \in
            {TypeName(log[j].T) : j \in {k \in CallsOn(log[i].t) : k < i}})

\* Both identities are stored after four calls, two of them repeats.
C10_Witness ==
  /\ Busy = {}
  /\ Cardinality(CallsOn("A")) = 4
  /\ cell["A"] = {"app::Hello", "ui::Hello"}
  /\ Cardinality({i \in Calls : log[i].ret}) = 2

====
